---- MODULE Spec2Model ----
(***************************************************************************)
(* State-machine model of Codes/Machine Learning model/RF_model.py:        *)
(*   - semi_random_sample (lines 33-53), statement by statement;           *)
(*   - class RF_Correction_Model: __init__, split_data, trainRF, test.     *)
(* Specifications:                                                         *)
(*   SpecSampler  one call of semi_random_sample;                          *)
(*   Spec         the run script (lines 193-204) over varied catalogs;     *)
(*   SpecRasters  the run script over varied raster contents;              *)
(*   SpecCalls    the methods of one object called in any order.           *)
(* Plotting (lines 157-163) and the summary stage (lines 210-262) are not  *)
(* modelled; the regressor is opaque.                                      *)
(***************************************************************************)
EXTENDS Integers, Sequences, FiniteSets, TLC

(***************************************************************************)
(* Bounds of the model.                                                    *)
(***************************************************************************)
\* small map sizes tried by the sampler: matrix_size in 1..MaxN
MaxN == 4
\* requested sample counts tried with the small maps: num_samples in 0..MaxK
MaxK == 16
\* one large call, semi_random_sample(BigN, BigK), whose blocked phase alone
\* passes the top-up threshold
BigN == 64
BigK == 1025
\* flight names are 1..MaxFlights
MaxFlights == 2
\* a flight has at most MaxCrops crops, numbered 0..MaxCrops-1
MaxCrops == 5
\* split_data is called with pixels in 0..MaxPixels
MaxPixels == 1
\* split_data is followed on the first RandLen indices of each sample that
\* semi_random_sample returns
RandLen == 2

(***************************************************************************)
(* Program constants.                                                      *)
(***************************************************************************)
\* `while len(points) < 1000`
MinPoints == 1000
\* `temp_list[::5]`
FlightStride == 5
\* `- 273.16`, in hundredths (raster values are held in hundredths)
KelvinOffset == 27316
\* a missing raster value (NaN); every real raster value is >= 0
NaN == 0 - 1

VARIABLES
    \* ---- one call of semi_random_sample ----
    matrix_size,    \* argument
    num_samples,    \* argument
    submat_size,    \* local
    submat_steps,   \* local
    i, j,           \* loop variables of the blocked phase
    \* points is held as its length and its last element: every element of
    \* points is `last` in the state that follows its append
    npoints,        \* len(points)
    last,           \* points[-1], the index appended last (-1: points is empty)
    pc,             \* position in the function
    \* ---- the files on disk (never written by the modelled calls) ----
    map_size,       \* __init__'s argument map_size
    output_data,    \* [flight -> crops c with a file {flight}_{c}<suffix>.tif in 'Output data']
    input_data,     \* [flight -> [role -> crops c with a file of that role in 'Input data/cropped_{flight}']]
    damaged,        \* [file, kind]: the one raster that is not a clean N x N array
    \* ---- the RF_Correction_Model object ----
    obj,            \* "none" before __init__, "ok" once built, "failed" if __init__ raised
    attrs,          \* the attributes assigned so far
    unique_flights, \* self.unique_flights
    files_df,       \* self.files_df, a sequence of rows
    train_flights,  \* self.train_flights
    len_of_random_pix, \* self.len_of_random_pix
    RF_train_df,    \* self.RF_train_df: [columns, rows]
    mask,           \* self.mask: [key -> set of flat indices set to 1]
    RFModel,        \* self.RFModel: [feature_names, fitted_on]
    \* ---- the last call on the object ----
    last_call,      \* "__init__", "split_data", "trainRF", "test"
    err,            \* the exception it raised, "none" if it returned
    written         \* the np.save calls of the last test(), in order

svars == <<matrix_size, num_samples, submat_size, submat_steps, i, j, npoints, last, pc>>
wvars == <<map_size, output_data, input_data, damaged>>
ovars == <<obj, attrs, unique_flights, files_df, train_flights, len_of_random_pix,
           RF_train_df, mask, RFModel>>
cvars == <<last_call, err, written>>
vars == <<svars, wvars, ovars, cvars>>

(***************************************************************************)
(* The files on disk.  A path is modelled by what the naming convention    *)
(* encodes in it: a file is <<role, flight, crop>>; the crop is one digit, *)
(* so sorting paths sorts by flight, then crop.                            *)
(***************************************************************************)
FlightNames == 1..MaxFlights
CropIds == 0..(MaxCrops - 1)

\* self.features (line 74)
features == <<"TGI", "height", "shade", "real_solar", "skyview">>
\* the roles globbed under 'Input data/cropped_{flight}' (lines 86, 89)
InputRoles == {"IR", "TGI", "height", "shade", "real_solar", "skyview"}

NoFile == <<"none", 0, 0>>
File(role, f, c) == <<role, f, c>>

\* the clean content of a raster, flattened: N*N values in hundredths
CleanRaster(file, N) ==
    [p \in 1..(N * N) |->
        IF file[1] = "M1" THEN 30000 + 100 * p * (file[3] + 1) + file[2]
        ELSE IF file[1] = "IR" THEN 2000 + 10 * p
        ELSE 10 * p + file[3]]

\* gdal.Open(file).ReadAsArray().flatten()
ReadFlat(file) ==
    LET clean == CleanRaster(file, map_size)
    IN  IF damaged.file # file THEN clean
        ELSE IF damaged.kind = "nan" THEN [clean EXCEPT ![1] = NaN]
        ELSE \* "short": one row fewer than N
             SubSeq(clean, 1, map_size * map_size - map_size)

\* the state of the variables of the object before __init__
PipelineIdle ==
    /\ map_size = 1
    /\ output_data = [f \in FlightNames |-> {}]
    /\ input_data = [f \in FlightNames |-> [r \in InputRoles |-> {}]]
    /\ damaged = [file |-> NoFile, kind |-> "none"]
    /\ obj = "none"
    /\ attrs = {}
    /\ unique_flights = <<>>
    /\ files_df = <<>>
    /\ train_flights = <<>>
    /\ len_of_random_pix = 0
    /\ RF_train_df = [columns |-> <<>>, rows |-> <<>>]
    /\ mask = <<>>
    /\ RFModel = [feature_names |-> <<>>, fitted_on |-> {}]
    /\ last_call = "none"
    /\ err = "none"
    /\ written = <<>>

\* the sampler's variables while the pipeline runs
SamplerIdle ==
    /\ matrix_size = 0
    /\ num_samples = 0
    /\ submat_size = 0
    /\ submat_steps = 0
    /\ i = 0
    /\ j = 0
    /\ npoints = 0
    /\ last = -1
    /\ pc = "idle"

\* every folder holds, for every role, exactly the crops of the flight's M1 files
Mirror(out) == [f \in FlightNames |-> [r \in InputRoles |-> out[f]]]

\* Catalog worlds: 1 x 1 maps; any number of crops per flight; at most one
\* (flight, role), of a flight with M1 files, whose number of files differs
\* from the flight's M1 files.
CompleteWorlds ==
    LET outs == [FlightNames -> {0..(k - 1) : k \in 0..MaxCrops}]
    IN  {[N |-> 1, out |-> o, inp |-> Mirror(o),
          damaged |-> [file |-> NoFile, kind |-> "none"]] : o \in outs}

CatalogWorlds ==
    LET outs == [FlightNames -> {0..(k - 1) : k \in 0..MaxCrops}]
    IN  CompleteWorlds
        \cup
        {[N |-> 1, out |-> od[1],
          inp |-> [Mirror(od[1]) EXCEPT ![od[2]][od[3]] = 0..(od[4] - 1)],
          damaged |-> [file |-> NoFile, kind |-> "none"]] :
            od \in {x \in outs \X FlightNames \X InputRoles \X (0..MaxCrops) :
                       x[1][x[2]] # {}}}

\* Compensated worlds: 1 x 1 maps; flight 1 has one crop and no file of role
\* r, flight 2 has MaxCrops crops and one more file of role r than crops.
CompensatedWorlds ==
    LET o == [f \in FlightNames |->
                 IF f = 1 THEN {0} ELSE IF f = 2 THEN 0..(MaxCrops - 1) ELSE {}]
    IN  {[N |-> 1, out |-> o,
          inp |-> [Mirror(o) EXCEPT ![1][r] = {}, ![2][r] = 0..MaxCrops],
          damaged |-> [file |-> NoFile, kind |-> "none"]] : r \in InputRoles}

\* Raster worlds: flight 1 with two crops of 2 x 2 maps, complete folders; at
\* most one raster holds a NaN or has a different shape.
RasterWorlds ==
    LET o == [f \in FlightNames |-> IF f = 1 THEN {0, 1} ELSE {}]
        files == {File(r, 1, c) : r \in InputRoles \cup {"M1"}, c \in {0, 1}}
    IN  {[N |-> 2, out |-> o, inp |-> Mirror(o),
          damaged |-> [file |-> NoFile, kind |-> "none"]]}
        \cup
        {[N |-> 2, out |-> o, inp |-> Mirror(o),
          damaged |-> [file |-> fl, kind |-> k]] :
            fl \in files, k \in {"nan", "short"}}

\* the object before __init__, on the files of world w
FreshOn(w) ==
    /\ SamplerIdle
    /\ map_size = w.N
    /\ output_data = w.out
    /\ input_data = w.inp
    /\ damaged = w.damaged
    /\ obj = "none"
    /\ attrs = {}
    /\ unique_flights = <<>>
    /\ files_df = <<>>
    /\ train_flights = <<>>
    /\ len_of_random_pix = 0
    /\ RF_train_df = [columns |-> <<>>, rows |-> <<>>]
    /\ mask = <<>>
    /\ RFModel = [feature_names |-> <<>>, fitted_on |-> {}]
    /\ last_call = "none"
    /\ err = "none"
    /\ written = <<>>

Init == \E w \in CatalogWorlds \cup CompensatedWorlds : FreshOn(w)

InitRasters == \E w \in RasterWorlds : FreshOn(w)

InitCalls == \E w \in CompleteWorlds : FreshOn(w)

(***************************************************************************)
(* RF_Correction_Model.__init__                                            *)
(***************************************************************************)
PairLeq(p, q) == p[1] < q[1] \/ (p[1] = q[1] /\ p[2] <= q[2])

\* list.sort() of a glob result of <<flight, crop>> names
RECURSIVE SortedList(_)
SortedList(S) ==
    IF S = {} THEN <<>>
    ELSE LET m == CHOOSE p \in S : \A q \in S : PairLeq(p, q)
         IN  <<m>> \o SortedList(S \ {m})

\* glob('{path}/Output data/*.tif'), sorted (lines 77-78)
OutputList == SortedList({fc \in FlightNames \X CropIds : fc[2] \in output_data[fc[1]]})

\* glob('{path}/Input data/cropped_{name}/{role}_*.tif'), sorted (lines 86-91)
InputList(name, role) ==
    SortedList({<<name, c>> : c \in input_data[name][role]})

\* temp_list[::FlightStride], 1-based positions 1, 1 + stride, ...
Strided(list, stride) ==
    LET n == (Len(list) + stride - 1) \div stride
    IN  [k \in 1..n |-> list[(k - 1) * stride + 1]]

\* line 81: [f...[:-26] for f in temp_list[::5]]
UniqueFlights(list) ==
    LET picked == Strided(list, FlightStride)
    IN  [k \in 1..Len(picked) |-> picked[k][1]]

\* lines 84-91: files_dict[role], accumulated over self.unique_flights
RECURSIVE RoleList(_, _)
RoleList(names, role) ==
    IF names = <<>> THEN <<>>
    ELSE InputList(Head(names), role) \o RoleList(Tail(names), role)

\* line 94: pd.DataFrame(files_dict) needs all columns of one length
Construct ==
    /\ obj = "none"
    /\ LET temp_list == OutputList
           uf == UniqueFlights(temp_list)
           cols == [r \in InputRoles |-> RoleList(uf, r)]
       IN  /\ last_call' = "__init__"
           /\ IF \A r \in InputRoles : Len(cols[r]) = Len(temp_list)
              THEN /\ obj' = "ok"
                   /\ err' = "none"
                   /\ attrs' = {"name", "N", "features", "unique_flights", "files_df"}
                   /\ unique_flights' = uf
                   /\ files_df' =
                        [k \in 1..Len(temp_list) |->
                            [M1 |-> File("M1", temp_list[k][1], temp_list[k][2]),
                             IR |-> File("IR", cols["IR"][k][1], cols["IR"][k][2]),
                             TGI |-> File("TGI", cols["TGI"][k][1], cols["TGI"][k][2]),
                             height |-> File("height", cols["height"][k][1], cols["height"][k][2]),
                             shade |-> File("shade", cols["shade"][k][1], cols["shade"][k][2]),
                             real_solar |-> File("real_solar", cols["real_solar"][k][1], cols["real_solar"][k][2]),
                             skyview |-> File("skyview", cols["skyview"][k][1], cols["skyview"][k][2]),
                             Flight |-> temp_list[k],
                             MainFlight |-> temp_list[k][1]]]
              ELSE /\ obj' = "failed"
                   /\ err' = "ValueError"
                   /\ UNCHANGED <<attrs, unique_flights, files_df>>
    /\ UNCHANGED <<train_flights, len_of_random_pix, RF_train_df, mask, RFModel, written>>
    /\ UNCHANGED <<svars, wvars>>

(***************************************************************************)
(* semi_random_sample                                                      *)
(***************************************************************************)
\* int(np.sqrt(n)): the integer part of the square root
IntSqrt(n) == CHOOSE s \in 0..n : s * s <= n /\ (s + 1) * (s + 1) > n

\* line 34: matrix_size // int(np.sqrt(num_samples)), for a divisor that is
\* not zero (ComputeBlocks and SamplerRaises handle the zero divisor)
SubmatSize(N, K) == N \div IntSqrt(K)

\* an off-by-one block count, as `range(submat_steps + 1)` would give
SubmatStepsOneMore(N, b) == (N \div b) + 1

\* line 35: int(matrix_size / submat_size)
SubmatSteps(N, b) == N \div b

\* the two coordinates swapped (column-major instead of row-major)
FlatIndexSwapped(x, y, N) == y * N + x

\* line 46, 51: int(x*matrix_size + y)
FlatIndex(x, y, N) == x * N + y

SamplerInputs ==
    ((1..MaxN) \X (0..MaxK)) \cup {<<BigN, BigK>>}

InitSampler ==
    /\ \E in \in SamplerInputs :
          /\ matrix_size = in[1]
          /\ num_samples = in[2]
    /\ submat_size = 0
    /\ submat_steps = 0
    /\ i = 0
    /\ j = 0
    /\ npoints = 0
    /\ last = -1
    /\ pc = "line34"
    /\ PipelineIdle

\* lines 34-37. Both divisions raise ZeroDivisionError on a zero divisor.
ComputeBlocks ==
    /\ pc = "line34"
    /\ IF IntSqrt(num_samples) = 0
       THEN /\ pc' = "ZeroDivisionError"
            /\ UNCHANGED <<submat_size, submat_steps>>
       ELSE /\ submat_size' = SubmatSize(matrix_size, num_samples)
            /\ IF submat_size' = 0
               THEN /\ pc' = "ZeroDivisionError"
                    /\ UNCHANGED submat_steps
               ELSE /\ submat_steps' = SubmatSteps(matrix_size, submat_size')
                    /\ pc' = "blocked"
    /\ UNCHANGED <<matrix_size, num_samples, i, j, npoints, last>>
    /\ UNCHANGED <<wvars, ovars, cvars>>

\* lines 38-46: one iteration of the inner loop, block (i, j)
BlockedStep ==
    /\ pc = "blocked"
    /\ i < submat_steps
    /\ LET x_start == i * submat_size
           x_end   == (i + 1) * submat_size
           y_start == j * submat_size
           y_end   == (j + 1) * submat_size
       IN  \E x \in x_start..(x_end - 1), y \in y_start..(y_end - 1) :
              last' = FlatIndex(x, y, matrix_size)
    /\ npoints' = npoints + 1
    /\ IF j + 1 < submat_steps
       THEN /\ j' = j + 1
            /\ i' = i
       ELSE /\ j' = 0
            /\ i' = i + 1
    /\ UNCHANGED <<matrix_size, num_samples, submat_size, submat_steps, pc>>
    /\ UNCHANGED <<wvars, ovars, cvars>>

\* the outer loop is exhausted: control reaches line 48
BlockedDone ==
    /\ pc = "blocked"
    /\ i = submat_steps
    /\ pc' = "topup"
    /\ UNCHANGED <<matrix_size, num_samples, submat_size, submat_steps, i, j, npoints, last>>
    /\ UNCHANGED <<wvars, ovars, cvars>>

\* lines 48-51: one iteration of the top-up loop
TopUpStep ==
    /\ pc = "topup"
    /\ npoints < MinPoints
    /\ \E x \in 0..(matrix_size - 1), y \in 0..(matrix_size - 1) :
          last' = FlatIndex(x, y, matrix_size)
    /\ npoints' = npoints + 1
    /\ UNCHANGED <<matrix_size, num_samples, submat_size, submat_steps, i, j, pc>>
    /\ UNCHANGED <<wvars, ovars, cvars>>

\* line 53: return points
Return ==
    /\ pc = "topup"
    /\ npoints >= MinPoints
    /\ pc' = "done"
    /\ UNCHANGED <<matrix_size, num_samples, submat_size, submat_steps, i, j, npoints, last>>
    /\ UNCHANGED <<wvars, ovars, cvars>>

NextSampler ==
    \/ ComputeBlocks
    \/ BlockedStep
    \/ BlockedDone
    \/ TopUpStep
    \/ Return

SpecSampler == InitSampler /\ [][NextSampler]_vars

(***************************************************************************)
(* RF_Correction_Model.split_data                                          *)
(***************************************************************************)
RECURSIVE AscList(_)
AscList(S) ==
    IF S = {} THEN <<>>
    ELSE LET m == CHOOSE x \in S : \A y \in S : x <= y
         IN  <<m>> \o AscList(S \ {m})

\* the lists of flights passed as train_set_maps
TrainSets == {AscList(S) : S \in SUBSET FlightNames}

RECURSIVE SumSeq(_)
SumSeq(s) == IF s = <<>> THEN 0 ELSE Head(s) + SumSeq(Tail(s))

SeqRange(s) == {s[k] : k \in 1..Len(s)}

\* self.files_df[self.files_df['MainFlight'] == flight].reset_index()
SubsetOf(flight) ==
    LET OfFlight(r) == r.MainFlight = flight
    IN  SelectSeq(files_df, OfFlight)

\* the (flight, crop) iterations of the loops at lines 110-112, in order
RECURSIVE CropLoop(_)
CropLoop(flights) ==
    IF flights = <<>> THEN <<>>
    ELSE LET sub == SubsetOf(Head(flights))
         IN  [k \in 1..Len(sub) |->
                 [row |-> sub[k], flight |-> Head(flights), crop |-> k - 1]]
             \o CropLoop(Tail(flights))

\* semi_random_sample(N, K) raises ZeroDivisionError at line 34 or line 35
SamplerRaises(N, K) ==
    \/ IntSqrt(K) = 0
    \/ SubmatSize(N, K) = 0

\* split_data uses the sample returned by semi_random_sample(N, K) index by
\* index.  Of each sample (at least MinPoints indices, each in [0, N*N))
\* RandLen indices are followed.
SampleSeqs(N) == [1..RandLen -> 0..(N * N - 1)]

\* arr[rand] raises IndexError when an index is outside the flattened raster
IndexFails(row, rand) ==
    \E file \in {row.TGI, row.height, row.shade, row.real_solar, row.skyview,
                 row.M1, row.IR} :
        \E k \in 1..Len(rand) : rand[k] >= Len(ReadFlat(file))

\* the residual with the mean taken before the missing rows are dropped:
\* x - S/cnt, as the fraction (cnt*x - S) / cnt
Centered(x, S, cnt) == [nan |-> FALSE, num |-> cnt * x - S, den |-> cnt]

MissingCell == [nan |-> TRUE, num |-> 0, den |-> 1]

\* lines 118-129 for one crop: the rows appended to dctRF.  src is not a
\* column: it records the crop a row came from.
CropRows(row, rand) ==
    LET At(file, k) == ReadFlat(file)[rand[k] + 1]
        ErrIsNaN(k) == At(row.M1, k) = NaN \/ At(row.IR, k) = NaN
        ErrVal(k) == At(row.M1, k) - At(row.IR, k) - KelvinOffset
        \* np.nanmean: over the entries that are not NaN
        S == SumSeq([k \in 1..Len(rand) |-> IF ErrIsNaN(k) THEN 0 ELSE ErrVal(k)])
        cnt == Cardinality({k \in 1..Len(rand) : ~ErrIsNaN(k)})
    IN  [k \in 1..Len(rand) |->
            [PredM1 |-> At(row.M1, k),
             PredErrorM1 |-> IF ErrIsNaN(k) \/ cnt = 0 THEN MissingCell
                             ELSE Centered(ErrVal(k), S, cnt),
             TGI |-> At(row.TGI, k),
             Height |-> At(row.height, k),
             Shade |-> At(row.shade, k),
             RealSolar |-> At(row.real_solar, k),
             Skyview |-> At(row.skyview, k),
             src |-> row.Flight]]

RECURSIVE AllRows(_, _)
AllRows(jobs, rands) ==
    IF jobs = <<>> THEN <<>>
    ELSE CropRows(Head(jobs).row, Head(rands)) \o AllRows(Tail(jobs), Tail(rands))

\* the keys of dctRF in insertion order (lines 106-107)
DictColumns == <<"PredM1", "PredErrorM1", "TGI", "Height", "Shade", "RealSolar", "Skyview">>

\* DataFrame.reset_index(): the old index becomes the first column
ResetIndexColumns(cols) == <<"index">> \o cols

HasNaN(r) ==
    \/ r.PredErrorM1.nan
    \/ NaN \in {r.PredM1, r.TGI, r.Height, r.Shade, r.RealSolar, r.Skyview}

\* lines 131-133: DataFrame(dctRF).dropna().reset_index()
TrainTable(raw) ==
    LET indexed == [k \in 1..Len(raw) |->
                      [index |-> k - 1, PredM1 |-> raw[k].PredM1,
                       PredErrorM1 |-> raw[k].PredErrorM1, TGI |-> raw[k].TGI,
                       Height |-> raw[k].Height, Shade |-> raw[k].Shade,
                       RealSolar |-> raw[k].RealSolar, Skyview |-> raw[k].Skyview,
                       src |-> raw[k].src]]
        Complete(r) == ~HasNaN(r)
    IN  [columns |-> ResetIndexColumns(DictColumns),
         rows |-> SelectSeq(indexed, Complete)]

split_data(pixels, train_set_maps) ==
    /\ obj = "ok"
    /\ last_call' = "split_data"
    /\ train_flights' = train_set_maps
    /\ len_of_random_pix' = pixels
    /\ LET jobs == CropLoop(train_set_maps)
       IN  IF jobs # <<>> /\ SamplerRaises(map_size, pixels)
           THEN /\ err' = "ZeroDivisionError"
                /\ attrs' = attrs \cup {"train_flights", "len_of_random_pix"}
                /\ UNCHANGED <<RF_train_df, mask>>
           ELSE \E rands \in [1..Len(jobs) -> SampleSeqs(map_size)] :
                   IF \E k \in 1..Len(jobs) : IndexFails(jobs[k].row, rands[k])
                   THEN /\ err' = "IndexError"
                        /\ attrs' = attrs \cup {"train_flights", "len_of_random_pix"}
                        /\ UNCHANGED <<RF_train_df, mask>>
                   ELSE /\ err' = "none"
                        /\ attrs' = attrs \cup {"train_flights", "len_of_random_pix",
                                                "RF_train_df", "mask"}
                        /\ RF_train_df' = TrainTable(AllRows(jobs, rands))
                        /\ mask' = [k \in 1..Len(jobs) |->
                                      [key |-> <<jobs[k].flight, jobs[k].crop>>,
                                       ones |-> SeqRange(rands[k])]]
    /\ UNCHANGED <<obj, unique_flights, files_df, RFModel, written>>
    /\ UNCHANGED <<svars, wvars>>

SplitData ==
    \E pixels \in 0..MaxPixels, train_set_maps \in TrainSets :
        split_data(pixels, train_set_maps)

(***************************************************************************)
(* RF_Correction_Model.trainRF                                             *)
(***************************************************************************)
\* `index` is kept among the features
KeepIndexColumn(cols) ==
    LET Kept(c) == c # "PredErrorM1"
    IN  SelectSeq(cols, Kept)

\* line 142: self.RF_train_df.drop(['index', 'PredErrorM1'], axis = 1)
TrainFeatureColumns(cols) ==
    LET Kept(c) == c \notin {"index", "PredErrorM1"}
    IN  SelectSeq(cols, Kept)

\* The regressor is opaque: of the fitted model the columns it was fitted on
\* are kept, and (not an attribute) the flights whose rows it was fitted on.
trainRF ==
    /\ obj = "ok"
    /\ last_call' = "trainRF"
    /\ IF "RF_train_df" \notin attrs
       THEN /\ err' = "AttributeError"
            /\ UNCHANGED <<RFModel, attrs>>
       ELSE IF RF_train_df.rows = <<>>
       THEN \* rf_model.fit on a table without rows
            /\ err' = "ValueError"
            /\ UNCHANGED <<RFModel, attrs>>
       ELSE /\ err' = "none"
            /\ RFModel' = [feature_names |-> TrainFeatureColumns(RF_train_df.columns),
                           fitted_on |-> {RF_train_df.rows[k].src[1] :
                                             k \in 1..Len(RF_train_df.rows)}]
            /\ attrs' = attrs \cup {"RFModel", "feature_importances", "trainedR2_RF"}
    /\ UNCHANGED <<obj, unique_flights, files_df, train_flights, len_of_random_pix,
                   RF_train_df, mask, written>>
    /\ UNCHANGED <<svars, wvars>>

(***************************************************************************)
(* RF_Correction_Model.test                                                *)
(***************************************************************************)
\* the columns of dataRF in insertion order (lines 183-185)
TestColumns == <<"PredM1", "TGI", "Height", "Shade", "RealSolar", "Skyview">>

\* the (flight, crop) iterations of the loops at lines 170-174, in order
RECURSIVE TestLoop(_)
TestLoop(flights) ==
    IF flights = <<>> THEN <<>>
    ELSE (IF Head(flights) \in SeqRange(train_flights) THEN <<>>
          ELSE SubsetOf(Head(flights)))
         \o TestLoop(Tail(flights))

TestInputs(row) ==
    <<ReadFlat(row.TGI), ReadFlat(row.height), ReadFlat(row.shade),
      ReadFlat(row.real_solar), ReadFlat(row.skyview), ReadFlat(row.M1)>>

\* lines 176-187 for one crop: the exception raised, "none" if the map is saved.
\* nanRaises: whether the installed regressor rejects NaN in predict's input.
CropError(row, nanRaises) ==
    LET ins == TestInputs(row)
    IN  IF \E a \in 1..6 : Len(ins[a]) # Len(ins[1])
        THEN "ValueError"       \* pd.DataFrame: columns of different lengths
        ELSE IF "RFModel" \notin attrs
        THEN "AttributeError"
        ELSE IF nanRaises /\ \E a \in 1..6 : NaN \in SeqRange(ins[a])
        THEN "ValueError"       \* predict
        ELSE IF Len(ins[1]) # map_size * map_size
        THEN "ValueError"       \* reshape((N, N))
        ELSE "none"

test ==
    /\ obj = "ok"
    /\ last_call' = "test"
    /\ IF unique_flights # <<>> /\ "train_flights" \notin attrs
       THEN /\ err' = "AttributeError"
            /\ written' = <<>>
       ELSE \E nanRaises \in BOOLEAN :
               LET jobs == TestLoop(unique_flights)
                   failing == {k \in 1..Len(jobs) : CropError(jobs[k], nanRaises) # "none"}
                   stop == IF failing = {} THEN Len(jobs) + 1
                           ELSE CHOOSE k \in failing : \A l \in failing : k <= l
               IN  /\ err' = IF failing = {} THEN "none"
                             ELSE CropError(jobs[stop], nanRaises)
                   /\ written' = [k \in 1..(stop - 1) |->
                                    [name |-> <<jobs[k].M1[2], jobs[k].M1[3]>>,
                                     columns |-> TestColumns,
                                     fitted_on |-> RFModel.fitted_on]]
    /\ UNCHANGED ovars
    /\ UNCHANGED <<svars, wvars>>

(***************************************************************************)
(* The run script (lines 193-204) calls __init__, split_data, trainRF and  *)
(* test in this order; an exception ends the run.                          *)
(***************************************************************************)
\* the previous call of the script was `call` and it returned
Returned(call) == last_call = call /\ err = "none"

\* line 195: model2.split_data(1_000, train_set)
RunSplitData == Returned("__init__") /\ SplitData

\* line 196: model2.trainRF(plot = True)
RunTrainRF == Returned("split_data") /\ trainRF

\* line 204: model2.test(fold_path)
RunTest == Returned("trainRF") /\ test

Next ==
    \/ Construct
    \/ RunSplitData
    \/ RunTrainRF
    \/ RunTest

\* the script on the catalog worlds
Spec == Init /\ [][Next]_vars

\* the script on the raster worlds
SpecRasters == InitRasters /\ [][Next]_vars

\* the methods of one object called in any order
NextCalls ==
    \/ Construct
    \/ SplitData
    \/ trainRF
    \/ test

SpecCalls == InitCalls /\ [][NextCalls]_vars

(***************************************************************************)
(* Properties of semi_random_sample, under SpecSampler.                     *)
(***************************************************************************)
\* the blocked phase is over and the top-up loop has not started
BlockedPhaseOver == pc = "blocked" /\ i = submat_steps

\* C1: for every N and K the returned index sequence has length at least
\* max(K, 1000) and every index lies in [0, N*N).
C1_LengthAndRange ==
    /\ pc = "done" =>
          /\ npoints >= num_samples
          /\ npoints >= 1000
    /\ last # -1 => (0 <= last /\ last < matrix_size * matrix_size)

\* C4: when N is divisible by floor(sqrt(K)) >= 1, the blocked phase has
\* appended exactly floor(sqrt(K))^2 indices when the top-up loop starts.
C4_BlockedCount ==
    (BlockedPhaseOver /\ matrix_size % IntSqrt(num_samples) = 0)
        => npoints = IntSqrt(num_samples) * IntSqrt(num_samples)

\* C4's case: a divisible grid with more than one block, blocked phase over
C4_Witness ==
    /\ BlockedPhaseOver
    /\ IntSqrt(num_samples) >= 2
    /\ matrix_size % IntSqrt(num_samples) = 0
    /\ npoints = IntSqrt(num_samples) * IntSqrt(num_samples)

\* one pixel was drawn from block (i, j) of side b (unprimed i, j: the block
\* of the iteration; primed last, npoints: what the iteration appended)
OnePixelOfBlock(b, perSide) ==
    BlockedStep =>
        /\ i * b <= last' \div matrix_size
        /\ last' \div matrix_size < (i + 1) * b
        /\ j * b <= last' % matrix_size
        /\ last' % matrix_size < (j + 1) * b
        /\ npoints' = i * perSide + j + 1

\* C8 as stated: with 1 <= floor(sqrt(K)) <= N the blocked phase uses exactly
\* floor(sqrt(K)) blocks per side and draws one pixel per block (i, j), row in
\* [i*b, (i+1)*b), column in [j*b, (j+1)*b), b = N div floor(sqrt(K)), giving
\* floor(sqrt(K))^2 blocked points, also when N is not divisible.
C8_SqrtBlocksPerSide ==
    /\ [](BlockedPhaseOver =>
            /\ submat_steps = IntSqrt(num_samples)
            /\ npoints = IntSqrt(num_samples) * IntSqrt(num_samples))
    /\ [][OnePixelOfBlock(matrix_size \div IntSqrt(num_samples),
                          IntSqrt(num_samples))]_vars

\* C8 amended: the number of blocks per side is floor(N / b) with
\* b = N div floor(sqrt(K)); one pixel is drawn per block (i, j), row in
\* [i*b, (i+1)*b), column in [j*b, (j+1)*b), giving floor(N / b)^2 blocked
\* points.
C8_BlocksPerSide ==
    /\ [](BlockedPhaseOver =>
            LET b == matrix_size \div IntSqrt(num_samples)
            IN  /\ submat_steps = matrix_size \div b
                /\ npoints = (matrix_size \div b) * (matrix_size \div b))
    /\ [][OnePixelOfBlock(matrix_size \div IntSqrt(num_samples),
                          matrix_size \div (matrix_size \div IntSqrt(num_samples)))]_vars

\* C8's case: N not divisible by floor(sqrt(K)), every block drawn from, and
\* more blocks per side than floor(sqrt(K))
C8_Witness ==
    /\ BlockedPhaseOver
    /\ matrix_size % IntSqrt(num_samples) # 0
    /\ submat_steps > IntSqrt(num_samples)
    /\ npoints = submat_steps * submat_steps
    /\ last \div matrix_size >= (submat_steps - 1) * submat_size

(***************************************************************************)
(* Properties of the pipeline object, under Spec, SpecRasters, SpecCalls.   *)
(***************************************************************************)
\* the (flight, crop) pairs among the prior-model (M1) files
M1Pairs == {fc \in FlightNames \X CropIds : fc[2] \in output_data[fc[1]]}

\* the flights that have M1 files
CatalogFlights == {f \in FlightNames : output_data[f] # {}}

\* every flight's folder holds, for every role, one file per crop of the flight
CompleteFolders ==
    \A f \in CatalogFlights, r \in InputRoles : input_data[f][r] = output_data[f]

\* __init__ returns a catalog whenever the folders are complete
BuildsOnCompleteFolders == (last_call = "__init__" /\ CompleteFolders) => obj = "ok"

\* how many np.save calls of the last test() wrote the map of (flight, crop) fc
TimesWritten(fc) == Cardinality({k \in 1..Len(written) : written[k].name = fc})

\* C2: test() writes exactly one correction map for each crop of every catalog
\* flight that is not a training flight and none for a training flight, for
\* catalogs whose flights have any number of crops.
C2_OneMapPerHeldOutCrop ==
    /\ BuildsOnCompleteFolders
    /\ (last_call = "test" /\ err = "none") =>
          \A fc \in M1Pairs :
              TimesWritten(fc) = IF fc[1] \in SeqRange(train_flights) THEN 0 ELSE 1

\* C3: in the training table returned by split_data, for every crop the mean
\* of PredErrorM1 over the rows of that crop is 0 (the rows of one crop share
\* the denominator, so the mean is 0 exactly when the numerators sum to 0).
C3_CenteredMeanZero ==
    "RF_train_df" \in attrs =>
        \A k \in 1..Len(RF_train_df.rows) :
            LET OfCrop(r) == r.src = RF_train_df.rows[k].src
                rows == SelectSeq(RF_train_df.rows, OfCrop)
            IN  SumSeq([l \in 1..Len(rows) |-> rows[l].PredErrorM1.num]) = 0

\* a flight with M1 files has a feature role without any file
MissingRole ==
    \E f \in CatalogFlights, r \in SeqRange(features) : input_data[f][r] = {}

\* C5: building the catalog for a root where a flight has M1 files but a
\* feature role with zero files fails with CatalogIncomplete and never yields
\* a catalog.
C5_CatalogIncompleteRaised ==
    (last_call = "__init__" /\ MissingRole) =>
        /\ obj = "failed"
        /\ err = "CatalogIncomplete"

\* C5's case where no error at all is raised: a catalog is returned although
\* a flight with M1 files has no file of some feature role
C5_SilentCatalog ==
    /\ last_call = "__init__"
    /\ MissingRole
    /\ obj = "ok"
    /\ err = "none"

\* the crop of a training flight whose raster has a mismatched shape
MismatchedTrainingCrop ==
    /\ damaged.kind = "short"
    /\ damaged.file[2] \in SeqRange(train_flights)

RowsOfCrop(fc) == {k \in 1..Len(RF_train_df.rows) : RF_train_df.rows[k].src = fc}

\* C6: when a crop of a training flight has rasters of mismatched dimensions,
\* split_data skips that crop and completes; the table has no row of the
\* skipped crop and has the rows of every other crop of the requested flights.
C6_SkipsMismatchedCrop ==
    (/\ last_call = "split_data"
     /\ MismatchedTrainingCrop
     /\ ~SamplerRaises(map_size, len_of_random_pix)) =>
        /\ err = "none"
        /\ \A fc \in M1Pairs :
              fc[1] \in SeqRange(train_flights) =>
                  IF fc = <<damaged.file[2], damaged.file[3]>>
                  THEN RowsOfCrop(fc) = {}
                  ELSE RowsOfCrop(fc) # {}

\* C7: the feature table test() passes to predict has the columns the model
\* was fitted on, in the same order: PredM1 and the five feature columns.
C7_SameColumns ==
    \A k \in 1..Len(written) :
        /\ written[k].columns = RFModel.feature_names
        /\ RFModel.feature_names =
              <<"PredM1", "TGI", "Height", "Shade", "RealSolar", "Skyview">>

\* C7's case: a test() that predicted and saved a map with a fitted model
C7_Witness ==
    /\ last_call = "test"
    /\ err = "none"
    /\ "RFModel" \in attrs
    /\ Len(written) >= 1

\* C9: the catalog has exactly one entry per (flight, crop) pair among the M1
\* files, and in every entry the paths of all roles belong to that flight and
\* crop, for any number of flights and of crops per flight.
C9_OneEntryPerCrop ==
    /\ BuildsOnCompleteFolders
    /\ obj = "ok" =>
          /\ \A fc \in M1Pairs :
                Cardinality({k \in 1..Len(files_df) : files_df[k].Flight = fc}) = 1
          /\ \A k \in 1..Len(files_df) :
                /\ files_df[k].Flight \in M1Pairs
                /\ \A file \in {files_df[k].M1, files_df[k].IR, files_df[k].TGI,
                                files_df[k].height, files_df[k].shade,
                                files_df[k].real_solar, files_df[k].skyview} :
                      <<file[2], file[3]>> = files_df[k].Flight

\* C10: every correction map written by a test call belongs to a flight that
\* contributed no rows to the training table the model in use was fitted on.
C10_NoMapForFittedFlight ==
    \A k \in 1..Len(written) : written[k].name[1] \notin written[k].fitted_on


====
